---- MODULE Spec2Model ----
(***************************************************************************)
(* Super Productivity -> CalDAV sync (src/main.py).                        *)
(*                                                                         *)
(* Text is modelled as a sequence of one-character strings, so that        *)
(* prefixes, separators, upper-casing, date parsing and date formatting    *)
(* are computed the way the code computes them.  Every Python value is a   *)
(* record with a tag field t ("None", "str", "num", "dict", "list",        *)
(* "date", "datetime").                                                    *)
(***************************************************************************)
EXTENDS Integers, Sequences, FiniteSets, TLC

VARIABLES
    server,       \* WebDAV server: what each URL answers to a GET
    url_idx,      \* index into urls_to_try of the candidate fetched next
    fetched,      \* candidates fetched so far in this cycle, with what came of each
    json_data,    \* what fetch_task_data returned ("pending" before it returns)
    structure,    \* how process_tasks started in this cycle: "no" (not called),
                  \*   "invalid" (line 185), "error" (an exception) or "loop"
    payload,      \* the task map as the for loop walks it: <<[id, task], ...>>
    calendar,     \* the remote calendar: uid -> stored resource
    pc,           \* position of main(): "fetch", "connect", "process", "tasks", "sleep"
    i,            \* index into payload of the task the for loop handles next
    cycle,        \* number of the running cycle of the while loop
    log,          \* what the for loop did in this cycle, one entry per task handled
    prevClean     \* previous cycle ran over the whole payload, no remote call failed

vars == <<server, url_idx, fetched, json_data, structure, payload, calendar, pc, i,
          cycle, log, prevClean>>

----------------------------------------------------------------------------
(* Python values *)

NoneV == [t |-> "None"]
Str(s) == [t |-> "str", v |-> s]
Num(n) == [t |-> "num", v |-> n]

\* a dict: d maps its keys to their values, ks lists the keys in insertion order
DictO(f, ks) == [t |-> "dict", d |-> f, ks |-> ks]

RECURSIVE SetToSeq(_)
SetToSeq(S) ==
    IF S = {} THEN <<>>
    ELSE LET x == CHOOSE y \in S : TRUE IN <<x>> \o SetToSeq(S \ {x})

\* a dict whose key order does not matter
Dict(f) == DictO(f, SetToSeq(DOMAIN f))
List(s) == [t |-> "list", v |-> s]

\* bool(x) of a JSON value
Truthy(x) ==
    CASE x.t = "None" -> FALSE
      [] x.t = "str"  -> Len(x.v) > 0
      [] x.t = "num"  -> x.v # 0
      [] x.t = "dict" -> DOMAIN x.d # {}
      [] x.t = "list" -> Len(x.v) > 0
      [] OTHER        -> TRUE

\* dict.get(key, default)
Get(x, key, default) == IF key \in DOMAIN x.d THEN x.d[key] ELSE default

----------------------------------------------------------------------------
(* Text *)

LowerCase == <<"a","b","c","d","e","f","g","h","i","j","k","l","m",
               "n","o","p","q","r","s","t","u","v","w","x","y","z">>
UpperCase == <<"A","B","C","D","E","F","G","H","I","J","K","L","M",
               "N","O","P","Q","R","S","T","U","V","W","X","Y","Z">>
DigitChars == <<"0","1","2","3","4","5","6","7","8","9">>

IsDigit(c) == \E k \in DOMAIN DigitChars : DigitChars[k] = c
DigitVal(c) == (CHOOSE k \in DOMAIN DigitChars : DigitChars[k] = c) - 1
DigitChar(n) == DigitChars[n + 1]

\* str.upper()
upper(s) ==
    [k \in DOMAIN s |->
        IF \E a \in DOMAIN LowerCase : LowerCase[a] = s[k]
        THEN UpperCase[CHOOSE a \in DOMAIN LowerCase : LowerCase[a] = s[k]]
        ELSE s[k]]

\* str.startswith(p)
startswith(s, p) == Len(s) >= Len(p) /\ SubSeq(s, 1, Len(p)) = p

\* str.find(p): first index (1-based) where p occurs in s, 0 when it does not
find(s, p) ==
    LET hits == {k \in 1..(Len(s) - Len(p) + 1) : SubSeq(s, k, k + Len(p) - 1) = p}
    IN IF hits = {} THEN 0 ELSE CHOOSE k \in hits : \A h \in hits : k <= h

\* p in s, for two strings
contains(s, p) == find(s, p) # 0

\* str.rstrip('/')
RECURSIVE rstrip_slash(_)
rstrip_slash(s) ==
    IF Len(s) > 0 /\ s[Len(s)] = "/" THEN rstrip_slash(SubSeq(s, 1, Len(s) - 1)) ELSE s

----------------------------------------------------------------------------
(* Calendar dates: datetime.date, strptime('%Y-%m-%d'), strftime('%Y%m%d') *)

Date(y, m, d) == [t |-> "date", y |-> y, m |-> m, d |-> d]

IsLeap(y) == (y % 4 = 0 /\ y % 100 # 0) \/ y % 400 = 0

DaysIn(y, m) ==
    IF m = 2 THEN (IF IsLeap(y) THEN 29 ELSE 28)
    ELSE IF m \in {4, 6, 9, 11} THEN 30 ELSE 31

\* the regular expressions _strptime builds for %m and %d, alternatives in order;
\* each gives [ok, val, next] for a match starting at position p of s
MatchMonth(s, p) ==
    LET c1 == IF p <= Len(s) THEN s[p] ELSE ""
        c2 == IF p + 1 <= Len(s) THEN s[p + 1] ELSE ""
    IN IF c1 = "1" /\ c2 \in {"0", "1", "2"}
       THEN [ok |-> TRUE, val |-> 10 + DigitVal(c2), next |-> p + 2]
       ELSE IF c1 = "0" /\ IsDigit(c2) /\ c2 # "0"
       THEN [ok |-> TRUE, val |-> DigitVal(c2), next |-> p + 2]
       ELSE IF IsDigit(c1) /\ c1 # "0"
       THEN [ok |-> TRUE, val |-> DigitVal(c1), next |-> p + 1]
       ELSE [ok |-> FALSE, val |-> 0, next |-> p]

MatchDay(s, p) ==
    LET c1 == IF p <= Len(s) THEN s[p] ELSE ""
        c2 == IF p + 1 <= Len(s) THEN s[p + 1] ELSE ""
    IN IF c1 = "3" /\ c2 \in {"0", "1"}
       THEN [ok |-> TRUE, val |-> 30 + DigitVal(c2), next |-> p + 2]
       ELSE IF c1 \in {"1", "2"} /\ IsDigit(c2)
       THEN [ok |-> TRUE, val |-> 10 * DigitVal(c1) + DigitVal(c2), next |-> p + 2]
       ELSE IF c1 = "0" /\ IsDigit(c2) /\ c2 # "0"
       THEN [ok |-> TRUE, val |-> DigitVal(c2), next |-> p + 2]
       ELSE IF IsDigit(c1) /\ c1 # "0"
       THEN [ok |-> TRUE, val |-> DigitVal(c1), next |-> p + 1]
       ELSE IF c1 = " " /\ IsDigit(c2) /\ c2 # "0"
       THEN [ok |-> TRUE, val |-> DigitVal(c2), next |-> p + 2]
       ELSE [ok |-> FALSE, val |-> 0, next |-> p]

ValueError == [t |-> "ValueError"]

\* datetime.strptime(s, '%Y-%m-%d').date(): a date, or ValueError
strptime(s) ==
    IF ~(Len(s) >= 5 /\ (\A k \in 1..4 : IsDigit(s[k])) /\ s[5] = "-")
    THEN ValueError
    ELSE LET y  == 1000 * DigitVal(s[1]) + 100 * DigitVal(s[2])
                   + 10 * DigitVal(s[3]) + DigitVal(s[4])
             mm == MatchMonth(s, 6)
         IN IF ~mm.ok \/ mm.next > Len(s) \/ s[mm.next] # "-"
            THEN ValueError
            ELSE LET dd == MatchDay(s, mm.next + 1)
                 IN IF ~dd.ok \/ dd.next # Len(s) + 1   \* unconverted data remains
                    THEN ValueError
                    ELSE IF y < 1 \/ dd.val > DaysIn(y, mm.val)
                    THEN ValueError
                    ELSE Date(y, mm.val, dd.val)

OverflowError == [t |-> "OverflowError"]

\* date + timedelta(days=1)
AddDay(dt) ==
    IF dt.d < DaysIn(dt.y, dt.m) THEN Date(dt.y, dt.m, dt.d + 1)
    ELSE IF dt.m < 12 THEN Date(dt.y, dt.m + 1, 1)
    ELSE IF dt.y < 9999 THEN Date(dt.y + 1, 1, 1)
    ELSE OverflowError

\* date.strftime('%Y%m%d'), years of four digits
strftime_date(dt) ==
    << DigitChar(dt.y \div 1000), DigitChar((dt.y \div 100) % 10),
       DigitChar((dt.y \div 10) % 10), DigitChar(dt.y % 10),
       DigitChar(dt.m \div 10), DigitChar(dt.m % 10),
       DigitChar(dt.d \div 10), DigitChar(dt.d % 10) >>

\* the date a stored DTSTART;VALUE=DATE value reads back as
from_ical_date(s) ==
    Date(1000 * DigitVal(s[1]) + 100 * DigitVal(s[2]) + 10 * DigitVal(s[3]) + DigitVal(s[4]),
         10 * DigitVal(s[5]) + DigitVal(s[6]),
         10 * DigitVal(s[7]) + DigitVal(s[8]))

----------------------------------------------------------------------------
(* Timed values: datetime.datetime.  wall is the wall-clock reading in        *)
(* milliseconds since 1970-01-01T00:00 of its own zone; tz is "naive", "UTC"  *)
(* or a fixed offset.                                                         *)

DateTime(wall, tz) == [t |-> "datetime", wall |-> wall, tz |-> tz]

\* utcoffset() in milliseconds
UtcOffsetMs(tz) == IF tz = "+0100" THEN 3600000 ELSE 0

\* the point in time a datetime denotes (a naive one read as UTC)
Instant(dt) == dt.wall - UtcOffsetMs(dt.tz)

\* datetime.fromtimestamp(due_timestamp / 1000.0, tz=timezone.utc)
fromtimestamp(ms) == DateTime(ms, "UTC")

\* datetime.replace(tzinfo=None)
replace_tzinfo_None(dt) == [dt EXCEPT !.tz = "naive"]

\* isinstance(x, datetime), isinstance(x, date): datetime is a subclass of date
isinstance_datetime(x) == x.t = "datetime"
isinstance_date(x) == x.t \in {"date", "datetime"}

\* Python == on dates, naive datetimes and None: a date never equals a datetime
PyEq(a, b) == a.t = b.t /\ a = b

----------------------------------------------------------------------------
(* iCalendar property values as stored on the server.  DATE holds the eight   *)
(* digits, DATE-TIME holds whole seconds (the format has no fraction) and     *)
(* the zone it was written with.                                              *)

vDateWire(digits) == [t |-> "DATE", v |-> digits]
vDatetimeWire(sec, tz) == [t |-> "DATE-TIME", sec |-> sec, tz |-> tz]

\* dt_start.strftime('%Y%m%dT%H%M%SZ'): the fraction of a second is not written
strftime_datetime(dt) == vDatetimeWire(dt.wall \div 1000, "UTC")

\* vDate(d) and vDatetime(dt) as icalendar serializes them on save
vDate(d) == vDateWire(strftime_date(d))
vDatetime(dt) == vDatetimeWire(dt.wall \div 1000, dt.tz)

\* vevent.get(name).dt: the native date or datetime of a stored property
dt_of(prop) ==
    IF prop.t = "DATE" THEN from_ical_date(prop.v)
    ELSE DateTime(prop.sec * 1000, prop.tz)

\* A VEVENT.  dtstart, dtend: a wire value or NoneV; summary, rrule: Str or NoneV;
\* duration: whether a DURATION property is present.
VEvent(uid, summary, dtstart, dtend, duration, rrule) ==
    [t |-> "event", uid |-> uid, summary |-> summary, dtstart |-> dtstart,
     dtend |-> dtend, duration |-> duration, rrule |-> rrule]

\* a stored resource whose data icalendar cannot parse, and one without a VEVENT
Unparsable == [t |-> "unparsable"]
NoVEvent == [t |-> "novevent"]

----------------------------------------------------------------------------
(* Keys and literals of the code *)

Key ==
    [ parentId |-> <<"p","a","r","e","n","t","I","d">>,
      dueDay |-> <<"d","u","e","D","a","y">>,
      dueWithTime |-> <<"d","u","e","W","i","t","h","T","i","m","e">>,
      title |-> <<"t","i","t","l","e">>,
      repeatCfg |-> <<"r","e","p","e","a","t","C","f","g">>,
      repeatEvery |-> <<"r","e","p","e","a","t","E","v","e","r","y">>,
      frequency |-> <<"f","r","e","q","u","e","n","c","y">>,
      task |-> <<"t","a","s","k">>,
      entities |-> <<"e","n","t","i","t","i","e","s">>,
      mainModelData |-> <<"m","a","i","n","M","o","d","e","l","D","a","t","a">> ]

UntitledTask == <<"U","n","t","i","t","l","e","d"," ","T","a","s","k">>
DAILY == <<"D","A","I","L","Y">>
WEEKLY == <<"W","E","E","K","L","Y">>
MONTHLY == <<"M","O","N","T","H","L","Y">>
YEARLY == <<"Y","E","A","R","L","Y">>
freq_map == {DAILY, WEEKLY, MONTHLY, YEARLY}
FREQ_EQ == <<"F","R","E","Q","=">>
UidPrefix == <<"s","u","p","e","r","-","p","r","o","d","u","c","t","i","v","i","t","y","-">>
DotIcs == <<".","i","c","s">>

\* a uid that leaves the task id out
Uid_PrefixOnly(task_id) == UidPrefix

\* uid = f"super-productivity-{task_id}"
Uid(task_id) == UidPrefix \o task_id

\* event_url = f"{cal_url}/{uid}.ics" with cal_url = str(calendar.url).rstrip('/')
EventUrl(calendar_url, uid) == rstrip_slash(calendar_url) \o <<"/">> \o uid \o DotIcs

----------------------------------------------------------------------------
(* process_tasks: what the body of the for loop does with one task *)

CALDAV_URL == <<"h",":","/","c","a","l","/">>

Raise == [t |-> "raise"]
Excluded == [t |-> "excluded"]
Due(dt_start, is_all_day) == [t |-> "due", dt_start |-> dt_start, is_all_day |-> is_all_day]

\* the loop body without the parentId check of line 193
Normalize_NoParentCheck(task) ==
    IF task.t # "dict" THEN Raise
    ELSE LET due_day == Get(task, Key.dueDay, NoneV)
             due_timestamp == Get(task, Key.dueWithTime, NoneV)
         IN IF Truthy(due_timestamp)
            THEN IF due_timestamp.t = "num"
                 THEN Due(fromtimestamp(due_timestamp.v), FALSE)
                 ELSE Raise
            ELSE IF Truthy(due_day)
            THEN IF due_day.t # "str" THEN Raise
                 ELSE LET d == strptime(due_day.v)
                      IN IF d.t = "ValueError" THEN Excluded ELSE Due(d, TRUE)
            ELSE Excluded

\* the loop body without the except ValueError of lines 213-215
Normalize_ValueErrorEscapes(task) ==
    IF task.t # "dict" THEN Raise
    ELSE IF Truthy(Get(task, Key.parentId, NoneV)) THEN Excluded
    ELSE LET due_day == Get(task, Key.dueDay, NoneV)
             due_timestamp == Get(task, Key.dueWithTime, NoneV)
         IN IF Truthy(due_timestamp)
            THEN IF due_timestamp.t = "num"
                 THEN Due(fromtimestamp(due_timestamp.v), FALSE)
                 ELSE Raise
            ELSE IF Truthy(due_day)
            THEN IF due_day.t # "str" THEN Raise
                 ELSE LET d == strptime(due_day.v)
                      IN IF d.t = "ValueError" THEN Raise ELSE Due(d, TRUE)
            ELSE Excluded

\* lines 193-219: Raise when an exception leaves the loop, Excluded on continue,
\* otherwise dt_start and is_all_day
Normalize(task) ==
    IF task.t # "dict" THEN Raise                     \* task.get of a non-dict
    ELSE IF Truthy(Get(task, Key.parentId, NoneV)) THEN Excluded
    ELSE LET due_day == Get(task, Key.dueDay, NoneV)
             due_timestamp == Get(task, Key.dueWithTime, NoneV)
         IN IF Truthy(due_timestamp)
            THEN IF due_timestamp.t = "num"
                 THEN Due(fromtimestamp(due_timestamp.v), FALSE)
                 ELSE Raise                           \* due_timestamp / 1000.0
            ELSE IF Truthy(due_day)
            THEN IF due_day.t # "str" THEN Raise      \* strptime of a non-string
                 ELSE LET d == strptime(due_day.v)
                      IN IF d.t = "ValueError" THEN Excluded ELSE Due(d, TRUE)
            ELSE Excluded                             \* if not dt_start: continue

\* title = task.get('title', 'Untitled Task')
Title(task) == Get(task, Key.title, Str(UntitledTask))

\* lines 260-281: whether the existing VEVENT must be updated
needs_update(vevent, dt_start, title) ==
    LET current_start == IF vevent.dtstart.t # "None" THEN dt_of(vevent.dtstart) ELSE NoneV
        current_summary == IF Truthy(vevent.summary) THEN vevent.summary.v ELSE <<>>
        val_a == IF isinstance_datetime(current_start)
                 THEN replace_tzinfo_None(current_start) ELSE current_start
        val_b == IF isinstance_datetime(dt_start)
                 THEN replace_tzinfo_None(dt_start) ELSE dt_start
        start_changed ==
            IF isinstance_datetime(current_start) /\ isinstance_datetime(dt_start)
            THEN ~PyEq(val_a, val_b)
            ELSE IF isinstance_date(current_start) /\ isinstance_date(dt_start)
            THEN ~PyEq(val_a, val_b)
            ELSE current_start.t # dt_start.t
    IN start_changed \/ title.v # current_summary

\* an update whose all-day end is the start day itself
UpdatedEvent_EndIsStart(vevent, dt_start, is_all_day, title) ==
    IF is_all_day
    THEN [vevent EXCEPT !.summary = title, !.dtstart = vDate(dt_start),
                        !.dtend = vDate(dt_start), !.duration = FALSE]
    ELSE [vevent EXCEPT !.summary = title, !.dtstart = vDatetime(dt_start),
                        !.dtend = NoneV, !.duration = FALSE]

\* an update that leaves DTEND and DURATION of a timed event as they were
UpdatedEvent_KeepsEnd(vevent, dt_start, is_all_day, title) ==
    IF is_all_day
    THEN LET dtend == AddDay(dt_start)
         IN IF dtend.t = "OverflowError" THEN Raise
            ELSE [vevent EXCEPT !.summary = title, !.dtstart = vDate(dt_start),
                                !.dtend = vDate(dtend), !.duration = FALSE]
    ELSE [vevent EXCEPT !.summary = title, !.dtstart = vDatetime(dt_start)]

\* lines 287-299: the VEVENT after the in-place update, or Raise (date overflow)
UpdatedEvent(vevent, dt_start, is_all_day, title) ==
    IF is_all_day
    THEN LET dtend == AddDay(dt_start)
         IN IF dtend.t = "OverflowError" THEN Raise
            ELSE [vevent EXCEPT !.summary = title,
                                !.dtstart = vDate(dt_start),
                                !.dtend = vDate(dtend),
                                !.duration = FALSE]
    ELSE [vevent EXCEPT !.summary = title,
                        !.dtstart = vDatetime(dt_start),
                        !.dtend = NoneV,
                        !.duration = FALSE]

\* the mapping without the upper() of line 337
rrule_line_CaseSensitive(repeat_cfg) ==
    IF ~Truthy(repeat_cfg) THEN NoneV
    ELSE IF repeat_cfg.t = "str"
    THEN IF repeat_cfg.v \in freq_map THEN Str(FREQ_EQ \o repeat_cfg.v) ELSE NoneV
    ELSE IF repeat_cfg.t = "dict"
    THEN LET freq == Get(repeat_cfg, Key.repeatEvery,
                         Get(repeat_cfg, Key.frequency, Str(DAILY)))
         IN IF freq.t = "str" /\ upper(freq.v) \in freq_map
            THEN Str(FREQ_EQ \o upper(freq.v)) ELSE NoneV
    ELSE NoneV

\* lines 314-347: the RRULE value for a repeatCfg, NoneV when no line is added
rrule_line(repeat_cfg) ==
    IF ~Truthy(repeat_cfg) THEN NoneV
    ELSE IF repeat_cfg.t = "str"
    THEN IF upper(repeat_cfg.v) \in freq_map
         THEN Str(FREQ_EQ \o upper(repeat_cfg.v)) ELSE NoneV
    ELSE IF repeat_cfg.t = "dict"
    THEN LET freq == Get(repeat_cfg, Key.repeatEvery,
                         Get(repeat_cfg, Key.frequency, Str(DAILY)))
         IN IF freq.t = "str" /\ upper(freq.v) \in freq_map
            THEN Str(FREQ_EQ \o upper(freq.v)) ELSE NoneV
    ELSE NoneV

\* lines 350-376: the VEVENT of ical_content, or Raise (date overflow)
CreatedEvent(uid, task, dt_start, is_all_day, title) ==
    LET rrule == rrule_line(Get(task, Key.repeatCfg, NoneV))
    IN IF is_all_day
       THEN LET dtend == AddDay(dt_start)
            IN IF dtend.t = "OverflowError" THEN Raise
               ELSE VEvent(uid, title, vDateWire(strftime_date(dt_start)),
                           vDateWire(strftime_date(dtend)), FALSE, rrule)
       ELSE VEvent(uid, title, strftime_datetime(dt_start), NoneV, FALSE, rrule)

NoWrite == [t |-> "None"]
Write(op, uid, url, event, outcome) ==
    [t |-> "write", op |-> op, uid |-> uid, url |-> url, event |-> event,
     outcome |-> outcome]

\* calendar.event_by_uid(uid): the stored resource, NoneV for NotFoundError
event_by_uid(cal, uid) == IF uid \in DOMAIN cal THEN cal[uid] ELSE NoneV

\* a PUT after which the calendar holds nothing but the event put
put_DropsOthers(cal, uid, ev) == (uid :> ev)

\* the calendar after a successful PUT of ev to <calendar>/<uid>.ics
put(cal, uid, ev) == (uid :> ev) @@ cal

\* the calendar after existing_event.save() succeeded
save(cal, ev) == [cal EXCEPT ![ev.uid] = ev]

\* a loop body whose Skip saves the event it found
Result_SkipSaves(abort, looked, uid, decision, error, write, cal) ==
    [abort |-> abort, looked |-> looked, uid |-> uid, decision |-> decision,
     error |-> error,
     write |-> IF decision = "skip"
               THEN Write("save", uid, <<>>, event_by_uid(cal, uid), "ok")
               ELSE write,
     calendar |-> cal]

Result(abort, looked, uid, decision, error, write, cal) ==
    [abort |-> abort, looked |-> looked, uid |-> uid, decision |-> decision,
     error |-> error, write |-> write, calendar |-> cal]

\* lines 191-406 for one (task_id, task) on calendar cal.  lookup_error:
\* event_by_uid raises something other than NotFoundError; outcome: "ok",
\* "status" (PUT answers a failure status) or "raise".  The result tells whether
\* an exception ended the for loop (abort), whether and under which uid the
\* lookup was made, the decision, whether the try block failed before a write
\* was issued (error), the write issued and the calendar afterwards.
process_task(task_id, task, cal, lookup_error, outcome) ==
    LET n == Normalize(task)
    IN IF n.t = "raise"
       THEN Result(TRUE, FALSE, <<>>, "raise", FALSE, NoWrite, cal)
       ELSE IF n.t = "excluded"
       THEN Result(FALSE, FALSE, <<>>, "excluded", FALSE, NoWrite, cal)
       ELSE
       LET title == Title(task)
           uid == Uid(task_id)
           existing_event == IF lookup_error THEN NoneV ELSE event_by_uid(cal, uid)
       IN IF existing_event.t = "None"
          THEN LET ev == CreatedEvent(uid, task, n.dt_start, n.is_all_day, title)
               IN IF ev.t = "raise"
                  THEN Result(FALSE, TRUE, uid, "create", TRUE, NoWrite, cal)
                  ELSE Result(FALSE, TRUE, uid, "create", FALSE,
                              Write("PUT", uid, EventUrl(CALDAV_URL, uid), ev, outcome),
                              IF outcome = "ok" THEN put(cal, uid, ev) ELSE cal)
          ELSE IF existing_event.t # "event"
          THEN Result(FALSE, TRUE, uid, "unreadable", FALSE, NoWrite, cal)  \* continue
          ELSE IF needs_update(existing_event, n.dt_start, title)
          THEN LET ev == UpdatedEvent(existing_event, n.dt_start, n.is_all_day, title)
               IN IF ev.t = "raise"
                  THEN Result(FALSE, TRUE, uid, "update", TRUE, NoWrite, cal)
                  ELSE Result(FALSE, TRUE, uid, "update", FALSE,
                              Write("save", ev.uid, <<>>, ev, outcome),
                              IF outcome = "ok" THEN save(cal, ev) ELSE cal)
          ELSE Result(FALSE, TRUE, uid, "skip", FALSE, NoWrite, cal)

----------------------------------------------------------------------------
(* json.loads on the JSON the payloads use: objects, arrays, strings without *)
(* escapes, unsigned integers and null, without white space.  Anything else  *)
(* is a ValueError.                                                          *)

At(s, p) == IF p >= 1 /\ p <= Len(s) THEN s[p] ELSE ""

Parsed(v, next) == [ok |-> TRUE, val |-> v, next |-> next]
NotParsed == [ok |-> FALSE, val |-> NoneV, next |-> 0]

\* a string literal whose opening quote is at p
ParseString(s, p) ==
    LET closing == {q \in (p + 1)..Len(s) : s[q] = "\""}
    IN IF At(s, p) # "\"" \/ closing = {} THEN NotParsed
       ELSE LET q == CHOOSE c \in closing : \A d \in closing : c <= d
            IN Parsed(SubSeq(s, p + 1, q - 1), q + 1)

RECURSIVE DigitsEnd(_, _)
DigitsEnd(s, p) == IF IsDigit(At(s, p)) THEN DigitsEnd(s, p + 1) ELSE p

RECURSIVE DigitsValue(_)
DigitsValue(ds) ==
    IF Len(ds) = 0 THEN 0
    ELSE 10 * DigitsValue(SubSeq(ds, 1, Len(ds) - 1)) + DigitVal(ds[Len(ds)])

RECURSIVE ParseValue(_, _), ParseMembers(_, _, _, _), ParseElements(_, _, _)

ParseValue(s, p) ==
    LET c == At(s, p)
    IN IF c = "{"
       THEN IF At(s, p + 1) = "}" THEN Parsed(DictO(<<>>, <<>>), p + 2)
            ELSE ParseMembers(s, p + 1, <<>>, <<>>)
       ELSE IF c = "["
       THEN IF At(s, p + 1) = "]" THEN Parsed(List(<<>>), p + 2)
            ELSE ParseElements(s, p + 1, <<>>)
       ELSE IF c = "\""
       THEN LET r == ParseString(s, p)
            IN IF r.ok THEN Parsed(Str(r.val), r.next) ELSE NotParsed
       ELSE IF IsDigit(c)
       THEN LET e == DigitsEnd(s, p)
            IN Parsed(Num(DigitsValue(SubSeq(s, p, e - 1))), e)
       ELSE IF p + 3 <= Len(s) /\ SubSeq(s, p, p + 3) = <<"n","u","l","l">>
       THEN Parsed(NoneV, p + 4)
       ELSE NotParsed

\* the members of an object from position p on; f and ks are the ones read so far
ParseMembers(s, p, f, ks) ==
    LET key == ParseString(s, p)
    IN IF ~key.ok \/ At(s, key.next) # ":" THEN NotParsed
       ELSE LET v == ParseValue(s, key.next + 1)
            IN IF ~v.ok THEN NotParsed
               ELSE LET f2 == (key.val :> v.val) @@ f
                        ks2 == IF key.val \in DOMAIN f THEN ks ELSE Append(ks, key.val)
                    IN IF At(s, v.next) = ","
                       THEN ParseMembers(s, v.next + 1, f2, ks2)
                       ELSE IF At(s, v.next) = "}"
                       THEN Parsed(DictO(f2, ks2), v.next + 1)
                       ELSE NotParsed

ParseElements(s, p, acc) ==
    LET v == ParseValue(s, p)
    IN IF ~v.ok THEN NotParsed
       ELSE IF At(s, v.next) = "," THEN ParseElements(s, v.next + 1, Append(acc, v.val))
       ELSE IF At(s, v.next) = "]" THEN Parsed(List(Append(acc, v.val)), v.next + 1)
       ELSE NotParsed

\* json.loads(text): the value, or ValueError
json_loads(text) ==
    LET r == ParseValue(text, 1)
    IN IF r.ok /\ r.next = Len(text) + 1 THEN r.val ELSE ValueError

----------------------------------------------------------------------------
(* fetch_task_data *)

WEBDAV_URL == <<"h",":","/","d","a","v","/">>

\* lines 32-42
urls_to_try ==
    LET base_url == rstrip_slash(WEBDAV_URL)
    IN << WEBDAV_URL,
          base_url \o <<"/","t","a","s","k">>,
          base_url \o <<"/","t","a","s","k",".","j","s","o","n">> >>

PF == <<"p","f","_">>
SEP == <<"_","_">>

\* a prefix handling that cuts after the last separator instead of the first
strip_prefix_LastSep(text_content) ==
    IF startswith(text_content, PF)
    THEN LET hits == {k \in 1..(Len(text_content) - 1) :
                         SubSeq(text_content, k, k + 1) = SEP}
         IN IF hits = {} THEN text_content
            ELSE LET k == CHOOSE h \in hits : \A g \in hits : g <= h
                 IN SubSeq(text_content, k + 2, Len(text_content))
    ELSE text_content

\* lines 54-62: text_content after the 'pf_' handling
strip_prefix(text_content) ==
    IF startswith(text_content, PF)
    THEN LET k == find(text_content, SEP)          \* split('__', 1)
         IN IF k # 0 THEN SubSeq(text_content, k + 2, Len(text_content))
            ELSE text_content
    ELSE text_content

\* Python's  key in x : raises TypeError for None and numbers
InRaises(x) == x.t \in {"None", "num"}
In(key, x) ==
    CASE x.t = "dict" -> key \in DOMAIN x.d
      [] x.t = "str"  -> contains(x.v, key)
      [] x.t = "list" -> \E e \in DOMAIN x.v : x.v[e] = Str(key)
      [] OTHER        -> FALSE

Return(val) == [t |-> "return", val |-> val]
Continue(why) == [t |-> "continue", why |-> why]

\* line 84: the warning reads data.keys()
KeysMissing(data) ==
    IF data.t = "dict" THEN Continue("keys missing") ELSE Continue("exception")

\* lines 73-84, after Case 1 did not return
ClassifyLater(data) ==
    IF In(Key.entities, data) THEN Return(Dict(Key.task :> data))
    ELSE IF In(Key.mainModelData, data)
    THEN IF data.t # "dict" THEN Continue("exception")
         ELSE LET main == data.d[Key.mainModelData]
              IN IF InRaises(main) THEN Continue("exception")
                 ELSE IF In(Key.task, main)
                 THEN IF main.t # "dict" THEN Continue("exception")
                      ELSE Return(Dict(Key.task :> main.d[Key.task]))
                 ELSE KeysMissing(data)
    ELSE KeysMissing(data)

\* lines 68-84 on the parsed data: the value returned, or why the loop goes on.
\* An exception inside is caught at line 93.
Classify(data) ==
    IF InRaises(data) THEN Continue("exception")
    ELSE IF In(Key.task, data)
    THEN IF data.t # "dict" THEN Continue("exception")
         ELSE IF InRaises(data.d[Key.task]) THEN Continue("exception")
         ELSE IF In(Key.entities, data.d[Key.task]) THEN Return(data)
         ELSE ClassifyLater(data)
    ELSE ClassifyLater(data)

TransportError == [t |-> "error"]
Http(status_code, text) == [t |-> "http", status_code |-> status_code, text |-> text]

\* lines 45-95 for one candidate, given what the GET came to
try_candidate(response) ==
    IF response.t = "error" THEN Continue("exception")
    ELSE IF response.status_code # 200 THEN Continue("status")
    ELSE LET data == json_loads(strip_prefix(response.text))
         IN IF data.t = "ValueError" THEN Continue("not json") ELSE Classify(data)

\* tasks.items(): the pairs in the order of the keys
Items(tasks) == [j \in DOMAIN tasks.ks |-> [id |-> tasks.ks[j], task |-> tasks.d[tasks.ks[j]]]]

Invalid == [t |-> "invalid"]
Error == [t |-> "error"]
Loop(items) == [t |-> "loop", items |-> items]

\* lines 184-191: how process_tasks(data, calendar) starts: Invalid (line 185),
\* Error (an exception, caught in main) or the items the for loop walks
process_start(data) ==
    IF ~Truthy(data) THEN Invalid
    ELSE IF InRaises(data) THEN Error
    ELSE IF ~In(Key.task, data) THEN Invalid
    ELSE IF data.t # "dict" THEN Error
    ELSE LET sub == data.d[Key.task]
         IN IF InRaises(sub) THEN Error
            ELSE IF ~In(Key.entities, sub) THEN Invalid
            ELSE IF sub.t # "dict" THEN Error
            ELSE LET tasks == sub.d[Key.entities]
                 IN IF tasks.t # "dict" THEN Error     \* len(tasks), tasks.items()
                    ELSE Loop(Items(tasks))

----------------------------------------------------------------------------
(* Inputs: task records, payloads and calendars the cycles are run on *)

MaxCycles == 2       \* cycles of the while loop that are followed
MaxTasks == 2        \* longest task map

Missing == [t |-> "missing"]     \* the key is not in the record

\* a task record with the given values, keys given as Missing left out
MkTask(parentId, dueDay, dueWithTime, title, repeatCfg) ==
    LET f == (Key.parentId :> parentId) @@ (Key.dueDay :> dueDay)
             @@ (Key.dueWithTime :> dueWithTime) @@ (Key.title :> title)
             @@ (Key.repeatCfg :> repeatCfg)
        keys == {k \in DOMAIN f : f[k].t # "missing"}
    IN Dict([k \in keys |-> f[k]])

DueDay ==
    [ d2024_03_01 |-> Str(<<"2","0","2","4","-","0","3","-","0","1">>),
      d2024_03_05 |-> Str(<<"2","0","2","4","-","0","3","-","0","5">>),
      d2024_3_5 |-> Str(<<"2","0","2","4","-","3","-","5">>),
      d2024_02_29 |-> Str(<<"2","0","2","4","-","0","2","-","2","9">>),
      d2023_02_29 |-> Str(<<"2","0","2","3","-","0","2","-","2","9">>),
      d2024_12_31 |-> Str(<<"2","0","2","4","-","1","2","-","3","1">>),
      d9999_12_31 |-> Str(<<"9","9","9","9","-","1","2","-","3","1">>),
      slashes |-> Str(<<"0","3","/","0","1","/","2","0","2","4">>),
      trailing |-> Str(<<"2","0","2","4","-","0","3","-","0","1","1">>) ]

DueDays == {Missing, DueDay.d2024_03_01, DueDay.d2024_03_05, DueDay.d2024_3_5, DueDay.d2024_02_29,
            DueDay.d2023_02_29, DueDay.d2024_12_31, DueDay.d9999_12_31, DueDay.slashes, DueDay.trailing,
            Num(20240301)}

\* epoch milliseconds: 0, whole seconds, and values with a fraction of a second
DueInstants == {Missing, Num(0), Num(3600000), Num(3600500), Num(7200000),
                Str(<<"s","o","o","n">>)}

PayRent == <<"P","a","y"," ","r","e","n","t">>
payrent == <<"p","a","y"," ","r","e","n","t">>
Titles == {Missing, Str(PayRent), Str(payrent)}

ParentIds == {Missing, Str(<<>>), Str(<<"t","0">>)}

RepeatStrings == {<<"d","a","i","l","y">>, <<"D","A","I","L","Y">>, <<"D","a","i","l","y">>, <<"w","e","e","k","l","y">>, <<"M","O","N","T","H","L","Y">>, <<"y","e","a","r","l","y">>, <<"B","I","W","E","E","K","L","Y">>, <<"h","o","u","r","l","y">>, <<"d","a","i","l","y","x">>, <<>>}

RepeatDicts ==
    { Dict(<<>>),
      Dict(Key.repeatEvery :> Str(<<"w","e","e","k","l","y">>)),
      Dict(Key.frequency :> Str(<<"m","o","n","t","h","l","y">>)),
      Dict((Key.repeatEvery :> Str(<<"y","e","a","r","l","y">>)) @@ (Key.frequency :> Str(<<"d","a","i","l","y">>))),
      Dict((Key.repeatEvery :> Num(2)) @@ (Key.frequency :> Str(<<"d","a","i","l","y">>))),
      Dict(Key.repeatEvery :> Str(<<"B","I","W","E","E","K","L","Y">>)),
      Dict(<<"s","t","a","r","t","D","a","t","e">> :> DueDay.d2024_03_01) }

RepeatCfgs == {Missing} \cup {Str(r) : r \in RepeatStrings} \cup RepeatDicts

\* the records tried as the first task of a payload
Tasks1 ==
    {MkTask(Missing, dd, dw, Str(PayRent), Missing) : dd \in DueDays, dw \in DueInstants}
    \cup {MkTask(Missing, DueDay.d2024_03_01, Missing, Str(PayRent), rc) : rc \in RepeatCfgs}
    \cup {MkTask(Missing, Missing, Num(3600000), Str(PayRent), rc) : rc \in RepeatCfgs}
    \cup {MkTask(p, dd, Missing, ti, rc) :
            p \in ParentIds, dd \in {Missing, DueDay.d2024_03_01, DueDay.slashes}, ti \in Titles,
            rc \in {Missing, Str(<<"d","a","i","l","y">>)}}
    \cup {MkTask(p, Missing, Num(3600500), ti, Missing) : p \in ParentIds, ti \in Titles}
    \cup {NoneV}

\* the records tried as a later task of a payload
Tasks2 ==
    { MkTask(Missing, DueDay.d2024_03_05, Missing, Str(payrent), Missing),
      MkTask(Missing, Missing, Num(7200000), Str(PayRent), Str(<<"w","e","e","k","l","y">>)),
      MkTask(Str(<<"t","1">>), DueDay.d2024_03_05, Missing, Str(payrent), Missing) }

\* the records a payload of several tasks starts with
Tasks1Few ==
    { MkTask(Missing, DueDay.d2024_03_01, Missing, Str(PayRent), Missing),
      MkTask(Missing, Missing, Num(3600500), Str(PayRent), Missing),
      MkTask(Str(<<"t","0">>), DueDay.d2024_03_01, Missing, Str(PayRent), Missing),
      MkTask(Missing, DueDay.slashes, Missing, Str(PayRent), Missing),
      MkTask(Missing, Missing, Str(<<"s","o","o","n">>), Str(PayRent), Missing),
      NoneV }

\* task identifiers t1, t2, ...
TaskId(k) == <<"t", DigitChar(k)>>
Item(k, task) == [id |-> TaskId(k), task |-> task]

RECURSIVE PayloadsOfLen(_)
PayloadsOfLen(n) ==
    IF n = 0 THEN {<<>>}
    ELSE IF n = 1 THEN {<<Item(1, t)>> : t \in Tasks1}
    ELSE IF n = 2 THEN {<<Item(1, t), Item(2, u)>> : t \in Tasks1Few, u \in Tasks2}
    ELSE {Append(q, Item(n, u)) : q \in PayloadsOfLen(n - 1),
                                  u \in {MkTask(Missing, DueDay.d2024_03_05, Missing,
                                                Str(payrent), Missing)}}

Payloads == UNION {PayloadsOfLen(n) : n \in 0..MaxTasks}

ForeignUid == <<"o","t","h","e","r","-","1">>

\* what the calendar may hold under the uid of the first task
Stored1 ==
    LET u == Uid(TaskId(1))
        d0301 == vDateWire(<<"2","0","2","4","0","3","0","1">>)
        d0302 == vDateWire(<<"2","0","2","4","0","3","0","2">>)
        d0228 == vDateWire(<<"2","0","2","4","0","2","2","8">>)
    IN { NoneV, Unparsable, NoVEvent,
         VEvent(u, Str(PayRent), d0301, d0302, FALSE, NoneV),
         VEvent(u, Str(payrent), d0301, d0302, FALSE, NoneV),
         VEvent(u, Str(PayRent), d0228, d0301, TRUE, Str(FREQ_EQ \o WEEKLY)),
         VEvent(u, Str(PayRent), vDatetimeWire(3600, "UTC"), NoneV, FALSE, NoneV),
         VEvent(u, Str(PayRent), vDatetimeWire(3600, "UTC"),
                vDatetimeWire(7200, "UTC"), TRUE, NoneV),
         VEvent(u, Str(PayRent), vDatetimeWire(3600, "naive"), NoneV, FALSE, NoneV),
         VEvent(u, Str(PayRent), vDatetimeWire(7200, "+0100"), NoneV, FALSE, NoneV),
         VEvent(u, Str(PayRent), vDatetimeWire(3600, "+0100"), NoneV, FALSE, NoneV),
         VEvent(u, NoneV, NoneV, NoneV, FALSE, NoneV) }

\* what it may hold under the uid of a later task
Stored2(k) ==
    { NoneV,
      VEvent(Uid(TaskId(k)), Str(payrent), vDateWire(<<"2","0","2","4","0","3","0","5">>),
             vDateWire(<<"2","0","2","4","0","3","0","6">>), FALSE, NoneV) }

ForeignEvent ==
    VEvent(ForeignUid, Str(<<"D","e","n","t","i","s","t">>), vDatetimeWire(90000, "UTC"),
           vDatetimeWire(93600, "UTC"), FALSE, NoneV)

\* a calendar holds nothing under a uid that is not in its domain
Holding(u, stored) == IF stored.t = "None" THEN <<>> ELSE (u :> stored)

RECURSIVE CalendarsUpTo(_)
CalendarsUpTo(k) ==
    IF k = 1 THEN {Holding(Uid(TaskId(1)), x) @@ (ForeignUid :> ForeignEvent) : x \in Stored1}
    ELSE {Holding(Uid(TaskId(k)), x) @@ c : x \in Stored2(k), c \in CalendarsUpTo(k - 1)}

Calendars == CalendarsUpTo(MaxTasks)

----------------------------------------------------------------------------
(* What the WebDAV server may answer *)

\* an error page
Text ==
    [ NotFound |-> <<"N","o","t"," ","F","o","u","n","d">>,
      \* a page that is not JSON
      Html |-> <<"<","h","t","m","l",">">>,
      \* the three shapes of the same task map
      Shape1 |-> <<"{","\"","t","a","s","k","\"",":","{","\"","e","n","t","i","t","i","e","s","\"",":","{","\"","t","1","\"",":","{","\"","d","u","e","D","a","y","\"",":","\"","2","0","2","4","-","0","3","-","0","1","\"","}","}","}","}">>,
      Shape2 |-> <<"{","\"","e","n","t","i","t","i","e","s","\"",":","{","\"","t","1","\"",":","{","\"","d","u","e","D","a","y","\"",":","\"","2","0","2","4","-","0","3","-","0","1","\"","}","}","}">>,
      Shape3 |-> <<"{","\"","m","a","i","n","M","o","d","e","l","D","a","t","a","\"",":","{","\"","t","a","s","k","\"",":","{","\"","e","n","t","i","t","i","e","s","\"",":","{","\"","t","1","\"",":","{","\"","d","u","e","D","a","y","\"",":","\"","2","0","2","4","-","0","3","-","0","1","\"","}","}","}","}","}">>,
      \* a task map of two tasks
      Shape2Two |-> <<"{","\"","i","d","s","\"",":","[","\"","t","1","\"",",","\"","t","2","\"","]",",","\"","e","n","t","i","t","i","e","s","\"",":","{","\"","t","1","\"",":","{","\"","d","u","e","D","a","y","\"",":","\"","2","0","2","4","-","0","3","-","0","1","\"","}",",","\"","t","2","\"",":","{","\"","d","u","e","W","i","t","h","T","i","m","e","\"",":","3","6","0","0","0","0","0",",","\"","t","i","t","l","e","\"",":","\"","P","a","y"," ","r","e","n","t","\"","}","}","}">>,
      \* an empty task map
      Shape2Empty |-> <<"{","\"","e","n","t","i","t","i","e","s","\"",":","{","}","}">>,
      \* mainModelData.task without entities
      Shape3NoEntities |-> <<"{","\"","m","a","i","n","M","o","d","e","l","D","a","t","a","\"",":","{","\"","t","a","s","k","\"",":","{","\"","x","\"",":","1","}","}","}">>,
      \* an object of no shape
      Other |-> <<"{","\"","o","t","h","e","r","\"",":","1","}">>,
      \* task is null, entities at top level
      TaskNull |-> <<"{","\"","t","a","s","k","\"",":","n","u","l","l",",","\"","e","n","t","i","t","i","e","s","\"",":","{","\"","t","1","\"",":","{","\"","d","u","e","D","a","y","\"",":","\"","2","0","2","4","-","0","3","-","0","1","\"","}","}","}">>,
      \* task without entities, entities at top level
      TaskIds |-> <<"{","\"","t","a","s","k","\"",":","{","\"","i","d","s","\"",":","[","]","}",",","\"","e","n","t","i","t","i","e","s","\"",":","{","\"","t","1","\"",":","{","\"","d","u","e","D","a","y","\"",":","\"","2","0","2","4","-","0","3","-","0","1","\"","}","}","}">>,
      \* both the first and the second shape
      Both |-> <<"{","\"","t","a","s","k","\"",":","{","\"","e","n","t","i","t","i","e","s","\"",":","{","}","}",",","\"","e","n","t","i","t","i","e","s","\"",":","{","\"","t","1","\"",":","{","\"","d","u","e","D","a","y","\"",":","\"","2","0","2","4","-","0","3","-","0","1","\"","}","}","}">>,
      \* task is a string
      TaskString |-> <<"{","\"","t","a","s","k","\"",":","\"","e","n","t","i","t","i","e","s","\"","}">>,
      \* JSON that is no object
      String |-> <<"\"","e","n","t","i","t","i","e","s","\"">>,
      List |-> <<"[","\"","t","a","s","k","\"","]">>,
      EmptyList |-> <<"[","]">>,
      Number |-> <<"5">>,
      Null |-> <<"n","u","l","l">>,
      \* JSON cut short
      Truncated |-> <<"{","\"","e","n","t","i","t","i","e","s","\"",":","{","\"","t","1","\"",":">>,
      \* the prefix marker without separator
      NoSeparator |-> <<"p","f","_","4",".","4","{","\"","e","n","t","i","t","i","e","s","\"",":","{","\"","t","1","\"",":","{","\"","d","u","e","D","a","y","\"",":","\"","2","0","2","4","-","0","3","-","0","1","\"","}","}","}">>,
      MarkerOnly |-> <<"p","f","_">> ]

\* JSON bodies and prefix tags; the prefixed text is pf_ + tag + __ + body
Body ==
    [ Entities |-> <<"{","\"","e","n","t","i","t","i","e","s","\"",":","{","\"","t","1","\"",":","{","\"","d","u","e","D","a","y","\"",":","\"","2","0","2","4","-","0","3","-","0","1","\"","}","}","}">>,
      Underscores |-> <<"{","\"","m","a","i","n","M","o","d","e","l","D","a","t","a","\"",":","{","\"","t","a","s","k","\"",":","{","\"","e","n","t","i","t","i","e","s","\"",":","{","\"","t","_","_","1","\"",":","{","\"","d","u","e","W","i","t","h","T","i","m","e","\"",":","3","6","0","0","0","0","0",",","\"","t","i","t","l","e","\"",":","\"","a","_","_","b","\"","}","}","}","}","}">>,
      Other |-> <<"{","\"","o","t","h","e","r","\"",":","1","}">> ]
Bodies == {Body.Entities, Body.Underscores, Body.Other, Text.Shape2Empty}
Tag ==
    [ Version |-> <<"4",".","4">>,
      Empty |-> <<>>,
      Inner |-> <<"a","_","_","b">>,
      Trailing |-> <<"4","_">>,
      Leading |-> <<"_","4">> ]
Tags == {Tag.Version, Tag.Empty, Tag.Inner, Tag.Trailing, Tag.Leading}
Prefixed(tag, body) == PF \o tag \o SEP \o body
PrefixedTexts == {Prefixed(tag, body) : tag \in Tags, body \in Bodies}

PlainTexts == {Text[f] : f \in DOMAIN Text}

\* the answers tried for the exact URL, for <base>/task and for <base>/task.json
Responses1 ==
    {TransportError, Http(404, Text.NotFound), Http(500, Text.Shape1)}
    \cup {Http(200, text) : text \in PlainTexts \cup PrefixedTexts \cup Bodies}
Responses2 ==
    {TransportError, Http(404, Text.NotFound), Http(200, Text.Shape1), Http(200, Text.Other),
     Http(200, Prefixed(Tag.Version, Body.Underscores))}
Responses3 ==
    {Http(404, Text.NotFound), Http(200, Text.Html), Http(200, Text.Shape2Two)}

Servers == {<<r1, r2, r3>> : r1 \in Responses1, r2 \in Responses2, r3 \in Responses3}

----------------------------------------------------------------------------
(* main: the cycles.  Spec takes the outcome of fetch_task_data as an input  *)
(* (a task map is resolved, or nothing is found) and ranges over payloads and *)
(* calendars; SpecFetch follows fetch_task_data candidate by candidate over   *)
(* the answers of the server.                                                 *)

Pending == [t |-> "pending"]

\* the canonical task map whose entities are the given items, in their order
EntitiesOf(items) ==
    DictO([id \in {items[j].id : j \in DOMAIN items} |->
              items[CHOOSE j \in DOMAIN items : items[j].id = id].task],
          [j \in DOMAIN items |-> items[j].id])
Canonical(items) == Dict(Key.task :> Dict(Key.entities :> EntitiesOf(items)))

Init ==
    /\ payload \in Payloads
    /\ calendar \in Calendars
    /\ server = <<>>
    /\ url_idx = 1
    /\ fetched = <<>>
    /\ json_data = Pending
    /\ structure = "none"
    /\ pc = "fetch"
    /\ i = 1
    /\ cycle = 1
    /\ log = <<>>
    /\ prevClean = FALSE

InitFetch ==
    /\ server \in Servers
    /\ payload = <<>>
    /\ calendar = (ForeignUid :> ForeignEvent)
    /\ url_idx = 1
    /\ fetched = <<>>
    /\ json_data = Pending
    /\ structure = "none"
    /\ pc = "fetch"
    /\ i = 1
    /\ cycle = 1
    /\ log = <<>>
    /\ prevClean = FALSE

\* lines 414-415, fetch_task_data returned the task map
FetchResolved ==
    /\ pc = "fetch"
    /\ server = <<>>
    /\ json_data' = Canonical(payload)
    /\ pc' = IF Truthy(json_data') THEN "connect" ELSE "sleep"
    /\ UNCHANGED <<server, url_idx, fetched, structure, payload, calendar, i, cycle,
                   log, prevClean>>

\* lines 97-98 and 414-415, fetch_task_data returned None: nothing else is done
\* in this cycle
FetchNotFound ==
    /\ pc = "fetch"
    /\ server = <<>>
    /\ json_data' = NoneV
    /\ pc' = "sleep"
    /\ UNCHANGED <<server, url_idx, fetched, structure, payload, calendar, i, cycle,
                   log, prevClean>>

\* lines 44-98 and 414-415: one pass of the loop over urls_to_try, and the
\* return of fetch_task_data when the pass ends it
FetchCandidate ==
    /\ pc = "fetch"
    /\ server # <<>>
    /\ url_idx <= Len(urls_to_try)
    /\ \E result \in {try_candidate(server[url_idx])} :
          /\ fetched' = Append(fetched, [url |-> urls_to_try[url_idx], result |-> result])
          /\ IF result.t = "return"
             THEN /\ json_data' = result.val
                  /\ pc' = IF Truthy(result.val) THEN "connect" ELSE "sleep"
                  /\ url_idx' = url_idx
             ELSE IF url_idx = Len(urls_to_try)
             THEN /\ json_data' = NoneV                   \* line 98
                  /\ pc' = "sleep"
                  /\ url_idx' = url_idx
             ELSE /\ json_data' = json_data
                  /\ pc' = pc
                  /\ url_idx' = url_idx + 1
    /\ UNCHANGED <<server, structure, payload, calendar, i, cycle, log, prevClean>>

\* lines 416-417, connect_caldav returned a calendar
ConnectOk ==
    /\ pc = "connect"
    /\ pc' = "process"
    /\ UNCHANGED <<server, url_idx, fetched, json_data, structure, payload, calendar,
                   i, cycle, log, prevClean>>

\* a failed connection that ends the program instead of the cycle
ConnectFailed_Ends ==
    /\ pc = "connect"
    /\ pc' = "ended"
    /\ UNCHANGED <<server, url_idx, fetched, json_data, structure, payload, calendar,
                   i, cycle, log, prevClean>>

\* lines 176-180 and 416-417, connect_caldav returned None
ConnectFailed ==
    /\ pc = "connect"
    /\ pc' = "sleep"
    /\ UNCHANGED <<server, url_idx, fetched, json_data, structure, payload, calendar,
                   i, cycle, log, prevClean>>

\* lines 418 and 184-191: process_tasks up to the for loop
ProcessStart ==
    /\ pc = "process"
    /\ \E start \in {process_start(json_data)} :
          /\ structure' = start.t
          /\ payload' = IF start.t = "loop" THEN start.items ELSE payload
          /\ pc' = IF start.t = "loop" /\ Len(start.items) > 0 THEN "tasks" ELSE "sleep"
    /\ UNCHANGED <<server, url_idx, fetched, json_data, calendar, i, cycle, log,
                   prevClean>>

\* the remote outcomes a write can have: requests.put returns a success status,
\* returns a failure status, or raises; save returns or raises
Outcomes(write) ==
    IF write.t # "write" THEN {"ok"}
    ELSE IF write.op = "PUT" THEN {"ok", "status", "raise"}
    ELSE {"ok", "raise"}

\* before, after: what the calendar holds under the task's uid before and after
LogEntry(item, lookup_error, r, before) ==
    [id |-> item.id, looked |-> r.looked, uid |-> r.uid,
     lookup_error |-> lookup_error, decision |-> r.decision, error |-> r.error,
     write |-> r.write, before |-> event_by_uid(before, Uid(item.id)),
     after |-> event_by_uid(r.calendar, Uid(item.id))]

\* one pass of the body of the for loop, lines 191-406
ProcessTask ==
    /\ pc = "tasks"
    /\ \E lookup_error \in BOOLEAN, outcome \in {"ok", "status", "raise"},
          item \in {payload[i]} :
         \E r \in {process_task(item.id, item.task, calendar, lookup_error, outcome)} :
            /\ lookup_error => r.looked
            /\ outcome \in Outcomes(r.write)
            /\ calendar' = r.calendar
            /\ log' = Append(log, LogEntry(item, lookup_error, r, calendar))
            /\ IF r.abort
               THEN pc' = "sleep" /\ i' = i       \* caught at line 421
               ELSE /\ i' = i + 1
                    /\ pc' = IF i = Len(payload) THEN "sleep" ELSE "tasks"
    /\ UNCHANGED <<server, url_idx, fetched, json_data, structure, payload, cycle,
                   prevClean>>

\* the cycle that ends here handled the whole payload and no remote call failed
CycleClean ==
    /\ structure = "loop"
    /\ Len(log) = Len(payload)
    /\ \A k \in DOMAIN log :
         /\ ~log[k].lookup_error
         /\ log[k].decision # "raise"
         /\ log[k].write.t = "write" => log[k].write.outcome = "ok"

\* line 424: time.sleep(900), then the next pass of the while loop
Sleep ==
    /\ pc = "sleep"
    /\ cycle < MaxCycles
    /\ cycle' = cycle + 1
    /\ prevClean' = CycleClean
    /\ pc' = "fetch"
    /\ i' = 1
    /\ log' = <<>>
    /\ json_data' = Pending
    /\ structure' = "none"
    /\ url_idx' = 1
    /\ fetched' = <<>>
    /\ UNCHANGED <<server, payload, calendar>>

Next ==
    \/ FetchResolved
    \/ FetchNotFound
    \/ ConnectOk
    \/ ConnectFailed
    \/ ProcessStart
    \/ ProcessTask
    \/ Sleep

Spec == Init /\ [][Next]_vars

NextFetch ==
    \/ FetchCandidate
    \/ ConnectOk
    \/ ConnectFailed
    \/ ProcessStart
    \/ ProcessTask
    \/ Sleep

SpecFetch == InitFetch /\ [][NextFetch]_vars

\* The payloads the progress of the loop is followed on: no task, a task that
\* is written, a record that raises, an excluded task in front of a written one
PayloadsLive ==
    { <<>>,
      <<Item(1, MkTask(Missing, Missing, Num(3600000), Str(PayRent), Missing))>>,
      <<Item(1, NoneV)>>,
      <<Item(1, MkTask(Missing, DueDay.slashes, Missing, Str(PayRent), Missing)),
        Item(2, MkTask(Missing, Missing, Num(7200000), Str(PayRent), Missing))>> }

InitLive ==
    /\ payload \in PayloadsLive
    /\ calendar \in Calendars
    /\ server = <<>>
    /\ url_idx = 1
    /\ fetched = <<>>
    /\ json_data = Pending
    /\ structure = "none"
    /\ pc = "fetch"
    /\ i = 1
    /\ cycle = 1
    /\ log = <<>>
    /\ prevClean = FALSE

\* main is one sequential loop: as long as every remote call returns or raises,
\* the step that is due is taken
SpecLive == InitLive /\ [][Next]_vars /\ WF_vars(Next)

----------------------------------------------------------------------------
(* Properties of process_tasks, stated over the log of the running cycle.   *)
(* log[k] is what the loop did with payload[k].                              *)

TaskOf(k) == payload[k].task
Wrote(k) == log[k].write.t = "write"
IsRecord(task) == task.t = "dict"
HasParent(task) == IsRecord(task) /\ Truthy(Get(task, Key.parentId, NoneV))

\* C1: idempotence across cycles.  When the previous cycle handled the whole
\* payload with every lookup answered and every write succeeding, and every
\* lookup of the running cycle is answered, the running cycle (same payload,
\* calendar changed by nobody else) issues no PUT and no save.
C1_SecondRunWritesNothing ==
    (cycle >= 2 /\ prevClean /\ \A k \in DOMAIN log : ~log[k].lookup_error)
        => \A k \in DOMAIN log : ~Wrote(k)


SummaryText(ev) == IF ev.summary.t = "str" THEN ev.summary.v ELSE <<>>

\* C2: the reconciler's decision rule.  With the lookup answered: no event
\* found gives Create; an event found (with a start) gives Update exactly when
\* (a) both starts are timed and denote different points in time, (b) both are
\* dates and differ, (c) one is timed and the other a date, or (d) the summary
\* is not the title; otherwise Skip.
C2_DecisionRule ==
    \A k \in DOMAIN log :
        (log[k].looked /\ ~log[k].lookup_error) =>
            LET before == log[k].before
                n == Normalize(TaskOf(k))
            IN IF before.t = "None" THEN log[k].decision = "create"
               ELSE (before.t = "event" /\ before.dtstart.t # "None") =>
                    LET cur == dt_of(before.dtstart)
                        a == /\ cur.t = "datetime" /\ n.dt_start.t = "datetime"
                             /\ Instant(cur) # Instant(n.dt_start)
                        b == /\ cur.t = "date" /\ n.dt_start.t = "date"
                             /\ cur # n.dt_start
                        c == cur.t # n.dt_start.t
                        d == SummaryText(before) # Title(TaskOf(k)).v
                    IN log[k].decision = IF a \/ b \/ c \/ d THEN "update" ELSE "skip"

\* C3: every event written for a task whose due is the all-day date d, by
\* Create and by Update, has DTSTART = d and DTEND = d + 1 day, both as
\* dates; a due day changed to 2024-03-05 against an event of 2024-03-01 gives
\* Update with DTSTART 20240305 and DTEND 20240306.
C3_AllDayEndIsNextDay ==
    \A k \in DOMAIN log :
        LET n == Normalize(TaskOf(k))
            w == log[k].write
        IN /\ (Wrote(k) /\ n.is_all_day) =>
                /\ w.event.dtstart = vDateWire(strftime_date(n.dt_start))
                /\ w.event.dtend = vDateWire(strftime_date(AddDay(n.dt_start)))
           /\ ( /\ IsRecord(TaskOf(k)) /\ n.t = "due" /\ n.is_all_day
                /\ Get(TaskOf(k), Key.dueDay, NoneV) = DueDay.d2024_03_05
                /\ ~log[k].lookup_error
                /\ log[k].before.t = "event"
                /\ log[k].before.dtstart = vDateWire(<<"2","0","2","4","0","3","0","1">>) ) =>
                /\ log[k].decision = "update" /\ Wrote(k)
                /\ w.event.dtstart = vDateWire(<<"2","0","2","4","0","3","0","5">>)
                /\ w.event.dtend = vDateWire(<<"2","0","2","4","0","3","0","6">>)

\* an Update moved an event of 2024-03-01 to the due day 2024-03-05
C3_Witness ==
    \E k \in DOMAIN log :
        /\ log[k].decision = "update" /\ Wrote(k) /\ log[k].write.outcome = "ok"
        /\ Normalize(TaskOf(k)).is_all_day
        /\ log[k].before.dtstart = vDateWire(<<"2","0","2","4","0","3","0","1">>)
        /\ log[k].after.dtend = vDateWire(<<"2","0","2","4","0","3","0","6">>)

\* C4: every event written for a task whose due is an instant has no DTEND
\* and no DURATION, on Create and on Update; the stored event has none after a
\* successful write, whatever it had before.
C4_TimedHasNoEnd ==
    \A k \in DOMAIN log :
        (Wrote(k) /\ ~Normalize(TaskOf(k)).is_all_day) =>
            /\ log[k].write.event.dtend = NoneV
            /\ ~log[k].write.event.duration
            /\ log[k].write.outcome = "ok" =>
                  log[k].after.dtend = NoneV /\ ~log[k].after.duration

\* an Update made an all-day event with an end and a duration a timed one
C4_Witness ==
    \E k \in DOMAIN log :
        /\ log[k].decision = "update" /\ Wrote(k) /\ log[k].write.outcome = "ok"
        /\ ~Normalize(TaskOf(k)).is_all_day
        /\ log[k].before.dtstart.t = "DATE"
        /\ log[k].before.dtend.t = "DATE" /\ log[k].before.duration
        /\ log[k].after.dtstart.t = "DATE-TIME"

\* C5: a task record with a parent reference is neither looked up nor decided
\* on nor written, whatever its other fields are and whatever the calendar holds.
C5_SubtaskExcluded ==
    \A k \in DOMAIN log :
        HasParent(TaskOf(k)) =>
            /\ ~log[k].looked
            /\ log[k].decision = "excluded"
            /\ ~Wrote(k)
            /\ log[k].after = log[k].before

\* a subtask with a valid due day was passed over while the calendar held an
\* event under its uid with another summary
C5_Witness ==
    \E k \in DOMAIN log :
        /\ HasParent(TaskOf(k))
        /\ Get(TaskOf(k), Key.dueDay, NoneV) = DueDay.d2024_03_01
        /\ log[k].before.t = "event"
        /\ SummaryText(log[k].before) # Title(TaskOf(k)).v

\* C6: due normalization of a record without parent reference.  A due instant
\* that is present gives Instant of that value whatever the due day is;
\* otherwise a due day that parses gives AllDay of that date; otherwise (due
\* day unparseable, or neither present) the task is excluded, neither looked
\* up nor written.
C6_DueNormalization ==
    \A k \in DOMAIN log :
        LET task == TaskOf(k)
            dw == IF IsRecord(task) THEN Get(task, Key.dueWithTime, NoneV) ELSE NoneV
            dd == IF IsRecord(task) THEN Get(task, Key.dueDay, NoneV) ELSE NoneV
            n == Normalize(task)
        IN (IsRecord(task) /\ ~HasParent(task)) =>
            IF dw.t = "num"
            THEN n.t = "due" /\ ~n.is_all_day /\ n.dt_start = DateTime(dw.v, "UTC")
            ELSE IF dw.t = "None" /\ dd.t = "str" /\ strptime(dd.v).t = "date"
            THEN n.t = "due" /\ n.is_all_day /\ n.dt_start = strptime(dd.v)
            ELSE IF dw.t = "None" /\ dd.t \in {"str", "None"}
            THEN n.t = "excluded" /\ ~log[k].looked /\ ~Wrote(k)
            ELSE TRUE

\* C7: a flat-string repeat configuration is upper-cased; the created event
\* carries RRULE FREQ=<tag> exactly when the upper-cased string is DAILY,
\* WEEKLY, MONTHLY or YEARLY ("daily" in any case gives FREQ=DAILY); any other
\* string gives an event without RRULE, and the create goes ahead all the same.
C7_FlatStringRecurrence ==
    \A k \in DOMAIN log :
        LET task == TaskOf(k)
            rc == IF IsRecord(task) THEN Get(task, Key.repeatCfg, NoneV) ELSE NoneV
        IN (log[k].decision = "create" /\ rc.t = "str") =>
            /\ ~log[k].error /\ Wrote(k)
            /\ \A tag \in {DAILY, WEEKLY, MONTHLY, YEARLY} :
                 upper(rc.v) = tag <=> log[k].write.event.rrule = Str(FREQ_EQ \o tag)
            /\ upper(rc.v) \notin {DAILY, WEEKLY, MONTHLY, YEARLY}
                 <=> log[k].write.event.rrule = NoneV
            /\ rc.v \in {<<"d","a","i","l","y">>, <<"D","A","I","L","Y">>, <<"D","a","i","l","y">>}
                 => log[k].write.event.rrule = Str(<<"F","R","E","Q","=","D","A","I","L","Y">>)
            /\ rc.v = <<"B","I","W","E","E","K","L","Y">> => log[k].write.event.rrule = NoneV

\* a task with repeatCfg "Daily" was created with RRULE FREQ=DAILY
C7_Witness ==
    \E k \in DOMAIN log :
        /\ log[k].decision = "create" /\ Wrote(k)
        /\ Get(TaskOf(k), Key.repeatCfg, NoneV) = Str(<<"D","a","i","l","y">>)
        /\ log[k].write.event.rrule = Str(<<"F","R","E","Q","=","D","A","I","L","Y">>)

\* C8: the identifier of the lookup, the UID written on Create and the
\* resource URL are "super-productivity-" + task id, whatever title and due
\* fields are; distinct task ids give distinct identifiers; an Update leaves
\* the UID of the event as it was.  Task t1 with due day 2024-03-01 and no
\* existing event is created with UID super-productivity-t1, DTSTART 20240301
\* and DTEND 20240302.
C8_DeterministicIdentity ==
    /\ \A k \in DOMAIN log :
         LET w == log[k].write
             id == <<"s","u","p","e","r","-","p","r","o","d","u","c","t","i","v","i","t","y","-">> \o log[k].id
         IN /\ log[k].looked => log[k].uid = id
            /\ (Wrote(k) /\ w.op = "PUT") =>
                 /\ w.event.uid = id
                 /\ w.url = <<"h",":","/","c","a","l","/">> \o id \o <<".","i","c","s">>
            /\ (Wrote(k) /\ w.op = "save") =>
                 w.event.uid = log[k].before.uid /\ w.event.uid = id
            /\ ( /\ log[k].id = <<"t", "1">> /\ IsRecord(TaskOf(k))
                 /\ ~HasParent(TaskOf(k))
                 /\ Get(TaskOf(k), Key.dueWithTime, NoneV) = NoneV
                 /\ Get(TaskOf(k), Key.dueDay, NoneV) = DueDay.d2024_03_01
                 /\ log[k].before.t = "None" ) =>
                 /\ log[k].decision = "create" /\ Wrote(k)
                 /\ w.event.uid = <<"s","u","p","e","r","-","p","r","o","d","u","c","t","i","v","i","t","y","-","t","1">>
                 /\ w.event.dtstart = vDateWire(<<"2","0","2","4","0","3","0","1">>)
                 /\ w.event.dtend = vDateWire(<<"2","0","2","4","0","3","0","2">>)
    /\ \A k, l \in DOMAIN log :
         (log[k].looked /\ log[l].looked /\ log[k].id # log[l].id)
            => log[k].uid # log[l].uid

\* two tasks were looked up in one cycle, the first created from the due day
\* 2024-03-01 under the UID super-productivity-t1
C8_Witness ==
    /\ Len(log) >= 2
    /\ log[1].looked /\ log[2].looked
    /\ log[1].decision = "create" /\ Wrote(1)
    /\ log[1].write.event.uid = <<"s","u","p","e","r","-","p","r","o","d","u","c","t","i","v","i","t","y","-","t","1">>
    /\ log[1].write.event.dtstart = vDateWire(<<"2","0","2","4","0","3","0","1">>)

----------------------------------------------------------------------------
(* Properties of fetch_task_data, stated over the candidates fetched in the  *)
(* running cycle.  fetched[k] is what the loop made of the answer server[k].  *)

Answer(k) == server[k]
Ok200(k) == Answer(k).t = "http" /\ Answer(k).status_code = 200

\* what a candidate resolves to: the task map, or nothing
Resolved(result) == IF result.t = "return" THEN result.val ELSE NoneV

\* the first "__" of pf_ + tag + __ is the one that ends it
GoodTag(tag) ==
    /\ tag # <<>>
    /\ ~contains(tag, <<"_","_">>)
    /\ tag[1] # "_"
    /\ tag[Len(tag)] # "_"

\* parsed as it is, nothing removed
ParsedAsIs(text) ==
    IF json_loads(text).t = "ValueError" THEN Continue("not json")
    ELSE Classify(json_loads(text))

PrefixRule(tags) ==
    \A k \in DOMAIN fetched :
        Ok200(k) =>
            /\ \A tag \in tags, body \in Bodies :
                 Answer(k).text = <<"p","f","_">> \o tag \o <<"_","_">> \o body =>
                    Resolved(fetched[k].result) = Resolved(try_candidate(Http(200, body)))
            /\ Answer(k).text = <<"p","f","_","4",".","4","_","_","{","\"","e","n","t","i","t","i","e","s","\"",":","{","}","}">> =>
                 fetched[k].result =
                    Return(Dict(Key.task :> Dict(Key.entities :> DictO(<<>>, <<>>))))
            /\ (startswith(Answer(k).text, <<"p","f","_">>)
                    /\ ~contains(Answer(k).text, <<"_","_">>)) =>
                 fetched[k].result = ParsedAsIs(Answer(k).text)

\* C9 as stated: for every JSON body B and every prefix tag, the text
\* pf_<tag>__ + B resolves to what B alone resolves to; a text with the prefix
\* marker and no "__" is parsed as-is.
C9_PrefixAnyTag == PrefixRule(Tags)

\* C9: for every JSON body B and every prefix tag that is not empty, contains
\* no "__" and neither begins nor ends with "_", the text pf_<tag>__ + B
\* resolves to what B alone resolves to, a "__" inside B being preserved
\* (pf_4.4__{"entities":{}} gives the task map with no entities); a text with
\* the prefix marker and no "__" is parsed as-is.
C9_PrefixGoodTag == PrefixRule({tag \in Tags : GoodTag(tag)})

\* the body with "__" in a task id and in a title, behind pf_4.4__, was
\* resolved and its task handed to the loop
C9_Witness ==
    /\ \E k \in DOMAIN fetched :
         /\ Ok200(k)
         /\ Answer(k).text = <<"p","f","_","4",".","4","_","_">> \o Body.Underscores
         /\ fetched[k].result.t = "return"
    /\ Len(log) = 1
    /\ log[1].id = <<"t","_","_","1">>
    /\ Title(payload[1].task) = Str(<<"a","_","_","b">>)

IsObject(x) == x.t = "dict"
HasKey(x, key) == IsObject(x) /\ key \in DOMAIN x.d

\* the answer is JSON of one of the three shapes
MatchesShape(k) ==
    /\ Ok200(k)
    /\ LET data == json_loads(strip_prefix(Answer(k).text))
       IN \/ HasKey(data, Key.task) /\ HasKey(data.d[Key.task], Key.entities)
          \/ HasKey(data, Key.entities)
          \/ HasKey(data, Key.mainModelData) /\ HasKey(data.d[Key.mainModelData], Key.task)

\* C10: the candidates are fetched in the order exact URL, <base>/task,
\* <base>/task.json; a candidate matching no shape (transport error, status
\* other than 200, no JSON, JSON of no shape) makes the resolver go on to the
\* next one; the result comes from the first candidate matching a shape and no
\* candidate is fetched after it; with all three exhausted the result is None
\* and the cycle processes no task.
C10_CandidateFallback ==
    /\ \A k \in DOMAIN fetched :
         /\ fetched[k].url = << <<"h",":","/","d","a","v","/">>,
                             <<"h",":","/","d","a","v","/","t","a","s","k">>,
                             <<"h",":","/","d","a","v","/","t","a","s","k",".","j","s","o","n">> >>[k]
         /\ fetched[k].result.t = "return" <=> MatchesShape(k)
         /\ MatchesShape(k) =>
              /\ k = Len(fetched)
              /\ json_data = fetched[k].result.val
         /\ (~MatchesShape(k) /\ k = Len(fetched) /\ k < 3) =>
              pc = "fetch" /\ url_idx = k + 1
    /\ (Len(fetched) = 3 /\ \A k \in 1..3 : ~MatchesShape(k)) =>
         /\ json_data = NoneV
         /\ pc = "sleep"
         /\ structure = "none"
         /\ log = <<>>

----------------------------------------------------------------------------
(* Properties of the for loop as a whole *)

\* the due day of the record is a string that does not parse, and there is no
\* due instant
MalformedDueDay(task) ==
    /\ IsRecord(task) /\ ~HasParent(task)
    /\ Get(task, Key.dueWithTime, NoneV) = NoneV
    /\ Get(task, Key.dueDay, NoneV).t = "str"
    /\ Get(task, Key.dueDay, NoneV).v # <<>>
    /\ strptime(Get(task, Key.dueDay, NoneV).v).t = "ValueError"

\* the PUT raised or answered a failure status, or the save raised
UpsertFailed(k) == Wrote(k) /\ log[k].write.outcome # "ok"

PerTaskFailure(k) ==
    UpsertFailed(k) \/ MalformedDueDay(TaskOf(k)) \/ log[k].decision = "unreadable"

\* C11: when the upsert of a task fails, or its due day is malformed, or its
\* existing event cannot be parsed, only that task is skipped: nothing is
\* stored for it, the loop goes on with the next task, and every later task
\* with a due is looked up, decided on and, when the decision is Create or
\* Update, written.
C11_FailureIsolated ==
    \A k \in DOMAIN log :
        PerTaskFailure(k) =>
            /\ log[k].decision # "raise"
            /\ log[k].after = log[k].before
            /\ (k = Len(log) /\ k < Len(payload)) => (pc = "tasks" /\ i = k + 1)
            /\ \A l \in DOMAIN log :
                 (l > k /\ Normalize(TaskOf(l)).t = "due") =>
                    /\ log[l].looked
                    /\ log[l].decision \in {"create", "update", "skip", "unreadable"}
                    /\ (log[l].decision \in {"create", "update"} /\ ~log[l].error)
                          => Wrote(l)

\* the PUT of the first task raised and the second task was written all the same
C11_Witness ==
    /\ Len(log) = 2
    /\ UpsertFailed(1) /\ log[1].write.outcome = "raise"
    /\ Wrote(2) /\ log[2].write.outcome = "ok"

----------------------------------------------------------------------------
(* Properties of main *)

\* the running cycle is over and process_tasks was not called: the payload
\* was not resolved, or the calendar was not connected
CycleSkipped == pc = "sleep" /\ structure = "none"

\* C12: a cycle in which payload resolution or the calendar connection fails
\* performs no lookup and no write; every cycle (completed, skipped, or ended
\* by an unexpected error) reaches the sleep, and the sleep is followed by the
\* next cycle.
C12_CyclesGoOn ==
    /\ [](CycleSkipped => log = <<>>)
    /\ \A c \in 1..MaxCycles : (cycle = c) ~> (cycle = c /\ pc = "sleep")
    /\ \A c \in 1..(MaxCycles - 1) :
         (cycle = c /\ pc = "sleep") ~> (cycle = c + 1 /\ pc = "fetch")

\* the first cycle was skipped (with no task in the payload, a cycle that calls
\* process_tasks is clean), the sleep was followed by a second cycle, and that
\* one was skipped for an unresolved payload and reached the sleep
C12_Witness ==
    /\ cycle = 2
    /\ payload = <<>>
    /\ ~prevClean
    /\ pc = "sleep"
    /\ json_data = NoneV
    /\ log = <<>>

----------------------------------------------------------------------------
(* Properties of the lookup *)

\* C13: when the lookup reports not-found the task goes on to Create; when
\* the lookup fails for any other reason the task is skipped for this cycle:
\* no create and no update is issued for it.
C13_LookupOutcomes ==
    \A k \in DOMAIN log :
        log[k].looked =>
            /\ (~log[k].lookup_error /\ log[k].before.t = "None") =>
                  /\ log[k].decision = "create"
                  /\ ~log[k].error => (Wrote(k) /\ log[k].write.op = "PUT")
            /\ log[k].lookup_error =>
                  /\ ~Wrote(k)
                  /\ log[k].decision \notin {"create", "update"}

----------------------------------------------------------------------------
(* Properties of the shape classification *)

\* the JSON a candidate answered with, after the prefix handling
DataOf(k) == json_loads(strip_prefix(Answer(k).text))

Shape1(data) == HasKey(data, Key.task) /\ HasKey(data.d[Key.task], Key.entities)
Shape2(data) == HasKey(data, Key.entities)
Shape3(data) ==
    HasKey(data, Key.mainModelData) /\ HasKey(data.d[Key.mainModelData], Key.task)

\* C14: the parsed JSON is classified in a fixed order, first match wins: a
\* top-level object with task.entities is returned unchanged; else one with
\* entities is returned as {task: <object>}; else one with mainModelData.task
\* is returned as {task: mainModelData.task}.  An object matching several
\* shapes goes by the earliest, one that fails the first check and satisfies
\* a later one goes by the later one.
C14_ShapeOrder ==
    \A k \in DOMAIN fetched :
        Ok200(k) =>
            LET data == DataOf(k)
                result == fetched[k].result
            IN /\ Shape1(data) => result = Return(data)
               /\ (~Shape1(data) /\ Shape2(data)) =>
                     result = Return(DictO((<<"t","a","s","k">> :> data), << <<"t","a","s","k">> >>))
               /\ (~Shape1(data) /\ ~Shape2(data) /\ Shape3(data)) =>
                     result = Return(DictO((<<"t","a","s","k">> :>
                                               data.d[Key.mainModelData].d[Key.task]),
                                           << <<"t","a","s","k">> >>))

\* a canonical task map: an object with task.entities
IsCanonical(val) == HasKey(val, Key.task) /\ HasKey(val.d[Key.task], Key.entities)

\* C15: every value fetch_task_data returns contains task.entities, so that
\* process_tasks never takes the invalid-structure branch on it, and a
\* candidate whose content lacks a task entity map does not end the search:
\* a candidate that ends it has one.
C15_ResultIsCanonical ==
    /\ \A k \in DOMAIN fetched :
         fetched[k].result.t = "return" => IsCanonical(fetched[k].result.val)
    /\ (json_data.t \notin {"pending", "None"}) => IsCanonical(json_data)
    /\ structure \notin {"invalid", "error"}

----------------------------------------------------------------------------
(* Properties of the comparison and of the written event *)

\* the lookup of task k found an event with a timed start, and the due of the
\* task is timed
BothTimed(k) ==
    /\ log[k].looked /\ ~log[k].lookup_error
    /\ log[k].before.t = "event"
    /\ log[k].before.dtstart.t = "DATE-TIME"
    /\ Normalize(TaskOf(k)).t = "due"
    /\ ~Normalize(TaskOf(k)).is_all_day

\* C16: when the existing start and the task due are both timed, the start
\* comparison forces Update exactly when they denote different points in time
\* with the UTC offset taken into account: a different instant gives Update, the
\* same instant (with the same summary) gives Skip, and a naive start compares
\* equal to an explicit-UTC due with the same wall-clock fields.
C16_ComparesInstants ==
    \A k \in DOMAIN log :
        BothTimed(k) =>
            LET cur == dt_of(log[k].before.dtstart)
                due == Normalize(TaskOf(k)).dt_start
                same_summary == SummaryText(log[k].before) = Title(TaskOf(k)).v
            IN /\ (cur.wall - UtcOffsetMs(cur.tz) # due.wall) => log[k].decision = "update"
               /\ (cur.wall - UtcOffsetMs(cur.tz) = due.wall /\ same_summary)
                     => log[k].decision = "skip"

RepeatCfgOf(task) == IF IsRecord(task) THEN Get(task, Key.repeatCfg, NoneV) ELSE NoneV

\* C17: whenever a cycle writes an event for a task, on Update as well as on
\* Create, the recurrence rule of the written event is the one derived from
\* the task's current repeat configuration: FREQ=<tag> when whitelisted, no
\* rule otherwise.
C17_RecurrenceOnEveryWrite ==
    \A k \in DOMAIN log :
        Wrote(k) => log[k].write.event.rrule = rrule_line(RepeatCfgOf(TaskOf(k)))

\* the frequency of an object: the value under repeatEvery, else the value
\* under frequency, else nothing
FrequencyOf(rc) ==
    IF <<"r","e","p","e","a","t","E","v","e","r","y">> \in DOMAIN rc.d
    THEN rc.d[<<"r","e","p","e","a","t","E","v","e","r","y">>]
    ELSE IF <<"f","r","e","q","u","e","n","c","y">> \in DOMAIN rc.d
    THEN rc.d[<<"f","r","e","q","u","e","n","c","y">>]
    ELSE NoneV

\* C18: for an object repeat configuration the frequency is read from
\* repeatEvery, falling back to frequency; the created event carries RRULE
\* FREQ=<tag> exactly when that value is a string whose upper-case form is
\* DAILY, WEEKLY, MONTHLY or YEARLY; for every other object, whatever keys it
\* has or lacks, no RRULE is written, and the create goes ahead without error.
C18_ObjectRecurrence ==
    \A k \in DOMAIN log :
        (log[k].decision = "create" /\ RepeatCfgOf(TaskOf(k)).t = "dict") =>
            LET freq == FrequencyOf(RepeatCfgOf(TaskOf(k)))
                listed == freq.t = "str"
                          /\ upper(freq.v) \in {DAILY, WEEKLY, MONTHLY, YEARLY}
            IN /\ ~log[k].error /\ Wrote(k)
               /\ log[k].write.event.rrule =
                     IF listed THEN Str(<<"F","R","E","Q","=">> \o upper(freq.v)) ELSE NoneV

\* C19: for a task whose decision is Skip the cycle issues no save and no PUT
\* and the event (start, end, summary, recurrence, UID) is after the task what
\* it was before; a cycle handles each task once, with at most one write.
C19_SkipWritesNothing ==
    /\ \A k \in DOMAIN log :
         log[k].decision = "skip" =>
            /\ ~Wrote(k)
            /\ log[k].before.t = "event"
            /\ log[k].after = log[k].before
    /\ Len(log) <= Len(payload)
    /\ \A k \in DOMAIN log : log[k].id = payload[k].id
    /\ \A k, l \in DOMAIN log : k # l => log[k].id # log[l].id

\* a task was skipped on an event that carries an end
C19_Witness ==
    \E k \in DOMAIN log :
        /\ log[k].decision = "skip"
        /\ log[k].before.t = "event"
        /\ log[k].before.dtend # NoneV
        /\ log[k].after = log[k].before

\* C20: once the for loop runs, no error arising from a single task record
\* (parent check, due instant conversion, due day parsing, lookup, comparison,
\* write) ends it early: no record makes an exception leave the loop, and a
\* cycle that entered the loop has handled every task of the map when it
\* reaches the sleep.
C20_LoopRunsToTheEnd ==
    /\ \A k \in DOMAIN log : log[k].decision # "raise"
    /\ (pc = "sleep" /\ structure = "loop") => Len(log) = Len(payload)

----------------------------------------------------------------------------
(* Frame of the writes *)

\* the identifier of the task the for loop is at
TargetUid == <<"s","u","p","e","r","-","p","r","o","d","u","c","t","i","v","i","t","y","-">>
                 \o payload[i].id

\* what a step may do to the calendar: nothing, or, while the loop is at a
\* task of the payload that is not excluded, store an event under that task's
\* identifier; nothing is removed and nothing else is changed
WriteFrame ==
    /\ DOMAIN calendar \subseteq DOMAIN calendar'
    /\ calendar' # calendar =>
          /\ pc = "tasks" /\ i \in DOMAIN payload
          /\ Normalize(payload[i].task).t = "due"
          /\ DOMAIN calendar' \subseteq DOMAIN calendar \cup {TargetUid}
          /\ \A u \in DOMAIN calendar : u # TargetUid => calendar'[u] = calendar[u]

\* every write the log records is for the identifier of its task, a task of
\* the payload that is not excluded
WritesTargetTasks ==
    \A k \in DOMAIN log :
        Wrote(k) =>
            /\ log[k].id = payload[k].id
            /\ log[k].write.uid =
                  <<"s","u","p","e","r","-","p","r","o","d","u","c","t","i","v","i","t","y","-">>
                      \o payload[k].id
            /\ log[k].write.op \in {"PUT", "save"}
            /\ Normalize(TaskOf(k)).t = "due"

\* C21: every remote write of a cycle targets the identifier
\* super-productivity-<id> of a task that is in the payload and not excluded;
\* no event is ever deleted, and events under any other UID (foreign events,
\* events of tasks no longer in the payload, of tasks that lost their due or
\* became subtasks) are left as they are by every step of every cycle.
C21_WritesOnlyOwnEvents == []WritesTargetTasks /\ [][WriteFrame]_vars

\* the first task is a subtask whose event is in the calendar, the second task
\* was written, and the subtask's event and the foreign event are as they were
C21_Witness ==
    /\ Len(log) = 2
    /\ log[1].decision = "excluded"
    /\ HasParent(TaskOf(1))
    /\ log[1].before.t = "event"
    /\ Wrote(2) /\ log[2].write.outcome = "ok"
    /\ calendar[Uid(payload[1].id)] = log[1].before
    /\ calendar[ForeignUid] = ForeignEvent

====
